---- MODULE Spec2Model ----
(***************************************************************************)
(* luaBn: the Lua binding of OpenSSL's BIGNUM (src/luaBn.c, and the older  *)
(* revision src/lib/luaBn.c).  The model covers operand coercion           *)
(* (testbignum, absnumber, numbertobignum, stringtobignum, luaBn_tobignum) *)
(* and the operator functions built on it.  Machine widths are scaled      *)
(* down: a limb of numbertobignum has LimbBits bits instead of 32, and a   *)
(* build fixes how many limbs luaBn_UInt and BN_ULONG hold.                *)
(***************************************************************************)
EXTENDS Integers, Sequences, FiniteSets, TLC

VARIABLES build, heap, ret, lib

vars == <<build, heap, ret, lib>>

(***************************************************************************)
(* Bounds of the model.                                                    *)
(***************************************************************************)
\* bits of one limb of numbertobignum (wshift is 32 in the source)
LimbBits == 2
\* host integers range over -MaxNum .. MaxNum
MaxNum == 17
\* non-integral host numbers are the odd multiples of 1/2 up to MaxFrac/2
MaxFrac == 3
\* strings handed to number() have at most MaxStrLen characters
MaxStrLen == 3
\* BigInt objects the script keeps (slots of the heap)
NObj == 2
\* a result is kept in a slot only when its magnitude is at most MaxStore
MaxStore == 3
\* bytes of the host's string buffer; a byte of the model holds one bit
LUAL_BUFFERSIZE == 1
\* records the library's error queue holds at most
MaxErr == 1

RECURSIVE Pow(_, _)
Pow(b, e) == IF e = 0 THEN 1 ELSE b * Pow(b, e - 1)

Abs(x) == IF x < 0 THEN -x ELSE x

\* C integer division and remainder truncate toward zero
TruncDiv(a, b) ==
    IF (a >= 0) = (b >= 0) THEN Abs(a) \div Abs(b) ELSE -(Abs(a) \div Abs(b))

TruncRem(a, b) == a - b * TruncDiv(a, b)

(***************************************************************************)
(* Builds.  nwords is CHAR_BIT * sizeof(luaBn_UInt) / wshift, ulwords the  *)
(* same for BN_ULONG: LUA_NUMBER_DOUBLE on LP64, LUA_NUMBER_DOUBLE on a    *)
(* 32-bit BN_ULONG, LUA_NUMBER_FLOAT on LP64.                              *)
(***************************************************************************)
Builds == { [nwords |-> 2, ulwords |-> 2],
            [nwords |-> 2, ulwords |-> 1],
            [nwords |-> 1, ulwords |-> 2] }

wshift == LimbBits
wmask == Pow(2, LimbBits) - 1
\* 2^W, W the bit width of luaBn_UInt
UIntMod(b) == Pow(2, wshift * b.nwords)
LUABN_UINT_MAX(b) == UIntMod(b) - 1
\* the range of luaBn_Int
IntMin(b) == -(UIntMod(b) \div 2)
IntMax(b) == (UIntMod(b) \div 2) - 1
\* 2^(bits of BN_ULONG)
ULongMod(b) == Pow(2, wshift * b.ulwords)
ULONG_MAX(b) == ULongMod(b) - 1

(***************************************************************************)
(* BIGNUM: the sign flag and the magnitude, as OpenSSL keeps them.  The    *)
(* primitives are those of the OpenSSL releases that still have BN_init,   *)
(* which newbignum calls (up to 1.0.2): a zero magnitude may carry the     *)
(* sign flag, and the primitives below leave it where those releases do.   *)
(***************************************************************************)
BN(neg, mag) == [neg |-> neg, mag |-> mag]
BNZero == BN(FALSE, 0)
Val(a) == IF a.neg THEN -a.mag ELSE a.mag
\* the BIGNUM a correct primitive leaves for the integer v (zero is not negative)
OfInt(v) == BN(v < 0, Abs(v))

BN_is_zero(a) == a.mag = 0
BN_is_negative(a) == a.neg
BN_is_word(a, w) == a.mag = w /\ (w = 0 \/ ~a.neg)
BN_is_one(a) == a.mag = 1 /\ ~a.neg
BN_is_odd(a) == a.mag % 2 = 1
\* BN_set_negative: the flag is set only on a non-zero number
BN_set_negative(a, b) == BN(b /\ ~BN_is_zero(a), a.mag)
negatebignum(a) == BN_set_negative(a, ~BN_is_negative(a))
BN_copy(a) == a
BN_set_word(w) == BN(FALSE, w)
BN_lshift(a, n) == BN(a.neg, a.mag * Pow(2, n))
\* BN_add_word, BN_sub_word: a zero word returns at once
BN_add_word(a, w) == IF w = 0 THEN a ELSE OfInt(Val(a) + w)
BN_sub_word(a, w) == IF w = 0 THEN a ELSE OfInt(Val(a) - w)
\* BN_mul_word touches only a non-zero number
BN_mul_word(a, w) ==
    IF a.mag = 0 THEN a ELSE IF w = 0 THEN BNZero ELSE BN(a.neg, a.mag * w)
\* BN_div_word divides the magnitude in place and returns the remainder;
\* the sign flag stays as it was, also over a quotient of zero
BN_div_word(a, w) == BN(a.neg, a.mag \div w)
BN_mod_word(a, w) == a.mag % w
\* |a| - |b| with the sign of the larger magnitude
BN_usubSigned(p, n) ==
    IF p.mag < n.mag THEN BN(TRUE, n.mag - p.mag) ELSE BN(FALSE, p.mag - n.mag)
\* BN_add: equal flags add the magnitudes and keep the flag
BN_add(a, b) ==
    IF a.neg = b.neg THEN BN(a.neg, a.mag + b.mag)
    ELSE IF a.neg THEN BN_usubSigned(b, a)
    ELSE BN_usubSigned(a, b)
\* BN_sub: a - (-b) = a + b, (-a) - b = -(a + b), (-a) - (-b) = b - a
BN_sub(a, b) ==
    IF a.neg /\ b.neg THEN BN_usubSigned(b, a)
    ELSE IF a.neg THEN BN(TRUE, a.mag + b.mag)
    ELSE IF b.neg THEN BN(FALSE, a.mag + b.mag)
    ELSE BN_usubSigned(a, b)
BN_mul(a, b) == OfInt(Val(a) * Val(b))
\* BN_cmp compares the sign flags first
BN_cmp(a, b) ==
    IF a.neg # b.neg THEN (IF a.neg THEN -1 ELSE 1)
    ELSE IF Val(a) < Val(b) THEN -1 ELSE IF Val(a) > Val(b) THEN 1 ELSE 0
BN_ucmp(a, b) ==
    IF a.mag < b.mag THEN -1 ELSE IF a.mag > b.mag THEN 1 ELSE 0

(***************************************************************************)
(* Host numbers.  A lua_Number d is kept as the integer 2*d, so that the   *)
(* halves are representable: d is integral iff 2*d is even.                *)
(***************************************************************************)
Num(i) == 2 * i
IsIntegral(d) == d % 2 = 0
\* the C conversion of a floating value to an integer type truncates
Trunc(d) == TruncDiv(d, 2)

HostInts == { Num(i) : i \in -MaxNum .. MaxNum }
HostFracs == { h \in -MaxFrac .. MaxFrac : h % 2 # 0 }
HostNumbers == HostInts \cup HostFracs

\* (BN_ULONG)d is defined when trunc(d) is representable; otherwise the
\* behaviour is undefined
CastULongOk(d, b) == Trunc(d) >= 0 /\ Trunc(d) <= ULONG_MAX(b)

\* what "m == (BN_ULONG)m ? (BN_ULONG)m : 0" can give for m > 0: the
\* truncated value when the cast is defined and m is integral, else 0; when
\* the cast is undefined, 0, or on a target whose cast saturates the
\* largest BN_ULONG, which a BN_ULONG wider than the mantissa of
\* lua_Number converts back to 2^w, so that the comparison holds for 2^w
WordOf(m, b) ==
    IF CastULongOk(m, b) THEN { IF m = Num(Trunc(m)) THEN Trunc(m) ELSE 0 }
    ELSE IF b.ulwords > 1 /\ m = Num(ULongMod(b)) THEN { 0, ULONG_MAX(b) }
    ELSE { 0 }

\* a faulty variant of absnumber that never finds a word; C18 must tell it
\* from the code
absnumberNever(d, b) == { 0 }

\* every value absnumber can return for d; 0 tells the callers that d is
\* no word
absnumber(d, b) ==
    IF d > 0 THEN WordOf(d, b)
    ELSE IF -d > 0 THEN WordOf(-d, b)
    ELSE { 0 }

\* (luaBn_Int)d: the truncated value when it is representable; otherwise
\* undefined behaviour, whose outcomes on the usual targets are the
\* "integer indefinite" value, saturation, or wrap-around
Wrap(v, b) == ((v - IntMin(b)) % UIntMod(b)) + IntMin(b)
CastInt(d, b) ==
    IF Trunc(d) >= IntMin(b) /\ Trunc(d) <= IntMax(b) THEN { Trunc(d) }
    ELSE { IntMin(b),
           IF d < 0 THEN IntMin(b) ELSE IntMax(b),
           Wrap(Trunc(d), b) }

(***************************************************************************)
(* numbertobignum                                                          *)
(***************************************************************************)
\* the loop over the limbs of n, most significant first (i = nwords .. 1)
RECURSIVE LimbLoop(_, _, _)
LimbLoop(rv, n, i) ==
    IF i = 0 THEN rv
    ELSE LET shift == wshift * (i - 1)
             w == (n \div Pow(2, shift)) % (wmask + 1)
             nx == IF ~BN_is_zero(rv)
                      THEN BN_add_word(BN_lshift(rv, wshift), w)
                   ELSE IF w # 0 THEN BN_set_word(w)
                   ELSE rv
         IN LimbLoop(nx, n, i - 1)

\* init_modulo_val: the decimal text of LUABN_UINT_MAX, parsed, plus one
get_modulo_val(b) == BN_add_word(OfInt(LUABN_UINT_MAX(b)), 1)

\* a faulty variant of SubModulo that takes LUABN_UINT_MAX for the modulus;
\* C1 must tell it from the code
SubModuloShort(rv, b) == BN_sub(rv, OfInt(LUABN_UINT_MAX(b)))

\* the three #if branches taken when d < 0
SubModulo(rv, b) ==
    IF LUABN_UINT_MAX(b) < ULONG_MAX(b)
       THEN BN_sub_word(rv, (LUABN_UINT_MAX(b) + 1) % ULongMod(b))
    ELSE IF LUABN_UINT_MAX(b) = ULONG_MAX(b)
       THEN BN_sub_word(BN_sub_word(rv, 1), LUABN_UINT_MAX(b))
    ELSE BN_sub(rv, get_modulo_val(b))

\* the BIGNUM built from the cast value c of d (n = (luaBn_Int)d)
NumberFromCast(d, c, b) ==
    LET n == c % UIntMod(b)
        rv == LimbLoop(BNZero, n, b.nwords)
    IN IF d < 0 THEN SubModulo(rv, b) ELSE rv

\* every BIGNUM numbertobignum can build for d
numbertobignum(d, b) == { NumberFromCast(d, c, b) : c \in CastInt(d, b) }

(***************************************************************************)
(* Strings are sequences of characters; At gives the terminating NUL.      *)
(***************************************************************************)
DecChars == <<"0", "1", "2", "3", "4", "5", "6", "7", "8", "9">>
HexLower == <<"a", "b", "c", "d", "e", "f">>
HexUpper == <<"A", "B", "C", "D", "E", "F">>
NUL == "NUL"

IsDigit(c) == \E i \in 1 .. 10 : DecChars[i] = c
IsXDigit(c) ==
    IsDigit(c) \/ \E i \in 1 .. 6 : HexLower[i] = c \/ HexUpper[i] = c
DigitVal(c) ==
    IF IsDigit(c) THEN (CHOOSE i \in 1 .. 10 : DecChars[i] = c) - 1
    ELSE 9 + (CHOOSE i \in 1 .. 6 : HexLower[i] = c \/ HexUpper[i] = c)

At(s, i) == IF i >= 1 /\ i <= Len(s) THEN s[i] ELSE NUL

\* how many decimal (hex = FALSE) or hexadecimal digits start at position i
RECURSIVE Run(_, _, _)
Run(s, i, hex) ==
    IF (IF hex THEN IsXDigit(At(s, i)) ELSE IsDigit(At(s, i)))
       THEN 1 + Run(s, i + 1, hex)
    ELSE 0

\* the value of the n digits that start at position i
RECURSIVE DigitsVal(_, _, _, _)
DigitsVal(s, i, n, base) ==
    IF n = 0 THEN 0
    ELSE DigitsVal(s, i, n - 1, base) * base + DigitVal(s[i + n - 1])

\* BN_dec2bn / BN_hex2bn on the text that starts at position from: an
\* optional '-', then the digits up to the first character that is none;
\* the return value counts the sign and the digits consumed
BN_str2bn(s, from, hex) ==
    LET neg == IF At(s, from) = "-" THEN 1 ELSE 0
        i == Run(s, from + neg, hex)
        v == DigitsVal(s, from + neg, i, IF hex THEN 16 ELSE 10)
    IN IF At(s, from) = NUL THEN [num |-> 0, bn |-> BNZero]
       ELSE [num |-> i + neg, bn |-> BN(neg = 1 /\ v # 0, v)]

BN_dec2bn(s, from) == BN_str2bn(s, from, FALSE)
BN_hex2bn(s, from) == BN_str2bn(s, from, TRUE)

\* stringtobignum: the parse, and whether bnerror("unable to parse") is raised
stringtobignum(s) ==
    LET z == IF At(s, 1) = "0" THEN 1 ELSE 0
        r == IF At(s, z + 1) = "x" \/ At(s, z + 1) = "X"
                THEN BN_hex2bn(s, z + 2)
             ELSE BN_dec2bn(s, 1)
    IN [st |-> IF r.num = 0 THEN "ParseError" ELSE "ok", bn |-> r.bn]

(***************************************************************************)
(* Lua values.  t is the lua_type; mt the metatable of a full userdata     *)
(* ("bn.number", another one, or none); id the struct BN a "bn.number"     *)
(* userdata holds.                                                         *)
(***************************************************************************)
LV(t, d, s, mt, id) == [t |-> t, d |-> d, s |-> s, mt |-> mt, id |-> id]
Number(d) == LV("number", d, <<>>, "none", 0)
String(s) == LV("string", 0, s, "none", 0)
Ref(i) == LV("userdata", 0, <<>>, "bn.number", i)
Nil == LV("nil", 0, <<>>, "none", 0)
OtherKinds == { Nil,
                LV("boolean", 0, <<>>, "none", 0),
                LV("table", 0, <<>>, "none", 0),
                LV("lightuserdata", 0, <<>>, "none", 0),
                LV("userdata", 0, <<>>, "other", 0),
                LV("userdata", 0, <<>>, "none", 0) }

IsBigInt(v) == v.t = "userdata" /\ v.mt = "bn.number"
Accepted(v) == v.t = "number" \/ v.t = "string" \/ IsBigInt(v)

\* struct BN: the BIGNUM and the transient string buffer
Obj(bn) == [live |-> TRUE, bn |-> bn, str |-> "NULL"]
NoObj == [live |-> FALSE, bn |-> BNZero, str |-> "NULL"]

\* testbignum: lua_touserdata is non-NULL for full and light userdata; the
\* metatable is compared only when lua_getmetatable finds one
testbignum(v) ==
    LET udata == v.t = "userdata" \/ v.t = "lightuserdata"
        hasmt == v.t = "userdata" /\ v.mt # "none"
    IN IF udata /\ hasmt THEN v.mt = "bn.number" ELSE udata

\* what &getbn(L, narg)->bignum reads: the BIGNUM of a bn.number userdata,
\* and whatever the memory holds for any other block
WildMemory == { BNZero, BN(FALSE, 1) }
getbn(v, h) == IF IsBigInt(v) THEN { h[v.id].bn } ELSE WildMemory

\* the result of fetching one operand: its status, the BIGNUM, and whether
\* the BIGNUM is the caller's object ("ref") or one made by this call ("new")
Got(st, bn, kind) == [st |-> st, bn |-> bn, kind |-> kind]

\* luaBn_tobignum: numbertobignum, stringtobignum, checkbignum or typerror
luaBn_tobignum(v, h, b) ==
    IF v.t = "number" THEN { Got("ok", x, "new") : x \in numbertobignum(v.d, b) }
    ELSE IF v.t = "string"
       THEN { Got(stringtobignum(v.s).st, stringtobignum(v.s).bn, "new") }
    ELSE IF v.t = "userdata" /\ v.mt = "bn.number"
       THEN { Got("ok", h[v.id].bn, "ref") }
    ELSE { Got("TypeError", BNZero, "none") }

(***************************************************************************)
(* The outcome of one call: how it ended (st), the BIGNUM or the integer   *)
(* it pushed, the path taken, which object holds the result (robj),        *)
(* whether a block that is no struct BN was read as one (ub), the string   *)
(* it pushed (s; empty unless the call renders one), and the caller's      *)
(* BigInt objects as the call leaves them (h).                             *)
(***************************************************************************)
Out(h, st, bn, int, path, robj, ub) ==
    [h |-> h, st |-> st, bn |-> bn, int |-> int, path |-> path, robj |-> robj,
     ub |-> ub, s |-> <<>>, ctx |-> "none", shown |-> "none"]
Raise(h, st) == Out(h, st, BNZero, 0, "none", "none", FALSE)

\* f_number: luaBn_tobignum(L, 1); lua_pushvalue(L, 1)
f_number(v, h, b) ==
    { IF g.st = "ok"
         THEN Out(h, "ok", g.bn, 0, "none",
                  IF g.kind = "ref" THEN "same" ELSE "arg1", FALSE)
      ELSE Raise(h, g.st) : g \in luaBn_tobignum(v, h, b) }

(***************************************************************************)
(* lua_tonumber.  On a string the host reads a number its own way: blanks  *)
(* around it, a sign, then 0x and hexadecimal digits, or decimal digits    *)
(* and an exponent; anything else converts to 0.                           *)
(***************************************************************************)
RECURSIVE SkipBlanks(_, _)
SkipBlanks(s, i) == IF At(s, i) = " " THEN SkipBlanks(s, i + 1) ELSE i

\* the host's str2d: [ok, d]
lua_str2number(s) ==
    LET p0 == SkipBlanks(s, 1)
        neg == At(s, p0) = "-"
        p1 == IF neg THEN p0 + 1 ELSE p0
        hex == At(s, p1) = "0" /\ At(s, p1 + 1) \in {"x", "X"}
                 /\ IsXDigit(At(s, p1 + 2))
        nh == Run(s, p1 + 2, TRUE)
        nd == Run(s, p1, FALSE)
        hasexp == At(s, p1 + nd) \in {"e", "E"} /\ IsDigit(At(s, p1 + nd + 1))
        ne == IF hasexp THEN Run(s, p1 + nd + 1, FALSE) ELSE 0
        mant == IF hex THEN DigitsVal(s, p1 + 2, nh, 16)
                ELSE DigitsVal(s, p1, nd, 10)
        v == IF hasexp /\ ~hex
                THEN mant * Pow(10, DigitsVal(s, p1 + nd + 1, ne, 10))
             ELSE mant
        end == IF hex THEN p1 + 2 + nh
               ELSE IF hasexp THEN p1 + nd + 1 + ne
               ELSE p1 + nd
        ok == (hex \/ nd > 0) /\ SkipBlanks(s, end) = Len(s) + 1
    IN [ok |-> ok, d |-> IF ok THEN Num(IF neg THEN -v ELSE v) ELSE 0]

lua_tonumber(v) ==
    IF v.t = "number" THEN v.d
    ELSE IF v.t = "string" THEN lua_str2number(v.s).d
    ELSE 0

(***************************************************************************)
(* The multi-precision primitives that can fail or need more than          *)
(* arithmetic on the value.                                                *)
(***************************************************************************)
\* BN_div: truncating quotient and remainder; fails on a zero divisor; a
\* dividend of smaller magnitude is copied to the remainder as it is
BN_div(a, d) ==
    IF BN_is_zero(d) THEN [ok |-> FALSE, dv |-> BNZero, rem |-> BNZero]
    ELSE IF a.mag < d.mag THEN [ok |-> TRUE, dv |-> BNZero, rem |-> BN_copy(a)]
    ELSE [ok |-> TRUE, dv |-> OfInt(TruncDiv(Val(a), Val(d))),
          rem |-> OfInt(TruncRem(Val(a), Val(d)))]

(***************************************************************************)
(* h_addsub, the implementation of mt_add, f_add, mt_sub and f_sub.        *)
(***************************************************************************)
\* the operand the helpers fetch without a test: luaBn_tobignum for a
\* module function, &getbn(L, narg)->bignum behind an assert for a metamethod
Untested(ismt, v, h, b) ==
    IF ~ismt THEN luaBn_tobignum(v, h, b)
    ELSE IF ~testbignum(v) THEN { Got("AssertFail", BNZero, "none") }
    ELSE { Got("ok", x, "ref") : x \in getbn(v, h) }

\* the tested operand: testbignum returned its BIGNUM
Tested(v, h) == { Got("ok", x, "ref") : x \in getbn(v, h) }

Wild(v) == testbignum(v) /\ ~IsBigInt(v)

\* a faulty variant of BN_addsub that adds whatever the sign; C8 must tell
\* it from the code
BN_addsubPlus(sign, x, y) == BN_add(x, y)

BN_addsub(sign, x, y) == IF sign > 0 THEN BN_add(x, y) ELSE BN_sub(x, y)

\* the word path of h_addsub on the copy of the other operand
AddSubWord(sign, narg, d, n, x) ==
    LET r1 == IF sign * d > 0 THEN BN_add_word(BN_copy(x), n)
              ELSE BN_sub_word(BN_copy(x), n)
    IN IF sign * narg = -1 THEN negatebignum(r1) ELSE r1

h_addsub(sign, ismt, a1, a2, h, b) ==
    LET narg == IF ~testbignum(a2) THEN 2 ELSE IF ~testbignum(a1) THEN 1 ELSE 0
        ub == Wild(a1) \/ Wild(a2)
    IN IF narg = 0
          THEN { Out(h, "ok", BN_addsub(sign, x, y), 0, "generic", "new", ub) :
                   <<x, y>> \in getbn(a1, h) \X getbn(a2, h) }
       ELSE LET v == IF narg = 1 THEN a1 ELSE a2
                others == IF narg = 2 THEN Untested(ismt, a1, h, b)
                          ELSE Tested(a2, h)
                d == lua_tonumber(v)
                robj == IF narg = 1 THEN "arg1" ELSE "arg2"
            IN UNION { IF g.st # "ok" THEN { Raise(h, g.st) }
                       ELSE IF n = 0
                          THEN { IF c.st # "ok" THEN Raise(h, c.st)
                                 ELSE Out(h, "ok",
                                          IF narg = 1
                                             THEN BN_addsub(sign, c.bn, g.bn)
                                          ELSE BN_addsub(sign, g.bn, c.bn),
                                          0, "generic", robj, ub) :
                                 c \in luaBn_tobignum(v, h, b) }
                       ELSE { Out(h, "ok", AddSubWord(sign, narg, d, n, g.bn),
                                  0, "word", "new", ub) } :
                       <<g, n>> \in others \X absnumber(d, b) }

(***************************************************************************)
(* h_mul, the implementation of mt_mul and f_mul.                          *)
(***************************************************************************)
MulWord(d, n, x) ==
    BN_mul_word(IF -d > 0 THEN negatebignum(BN_copy(x)) ELSE BN_copy(x), n)

h_mul(ismt, a1, a2, h, b) ==
    LET narg == IF ~testbignum(a1) THEN 1 ELSE IF ~testbignum(a2) THEN 2 ELSE 0
        ub == Wild(a1) \/ Wild(a2)
    IN IF narg = 0
          THEN { Out(h, "ok", BN_mul(x, y), 0, "generic", "new", ub) :
                   <<x, y>> \in getbn(a1, h) \X getbn(a2, h) }
       ELSE LET v == IF narg = 1 THEN a1 ELSE a2
                others == IF narg = 1 THEN Untested(ismt, a2, h, b)
                          ELSE Tested(a1, h)
                d == lua_tonumber(v)
                robj == IF narg = 1 THEN "arg1" ELSE "arg2"
            IN UNION { IF g.st # "ok" THEN { Raise(h, g.st) }
                       ELSE IF n = 0
                          THEN { IF c.st # "ok" THEN Raise(h, c.st)
                                 ELSE Out(h, "ok", BN_mul(c.bn, g.bn), 0,
                                          "generic", robj, ub) :
                                 c \in luaBn_tobignum(v, h, b) }
                       ELSE { Out(h, "ok", MulWord(d, n, g.bn), 0, "word",
                                  "new", ub) } :
                       <<g, n>> \in others \X absnumber(d, b) }

(***************************************************************************)
(* h_div (mt_div, f_div) and mt_mod.  The result is always a new object.   *)
(***************************************************************************)
\* a faulty variant of DivWord that forgets the sign of the divisor; C5
\* must tell it from the code
DivWordUnsigned(d, n, x) == BN_div_word(BN_copy(x), n)

DivWord(d, n, x) ==
    BN_div_word(IF -d > 0 THEN negatebignum(BN_copy(x)) ELSE BN_copy(x), n)

\* the generic path: BN_div, and bnerror when it fails
DivGeneric(h, x, y, ub) ==
    IF BN_div(x, y).ok
       THEN Out(h, "ok", BN_div(x, y).dv, 0, "generic", "new", ub)
    ELSE Raise(h, "ArithmeticError")

h_div(ismt, a1, a2, h, b) ==
    LET ub == Wild(a2) \/ (ismt /\ Wild(a1))
    IN IF testbignum(a2)
          THEN UNION { IF g.st # "ok" THEN { Raise(h, g.st) }
                       ELSE { DivGeneric(h, g.bn, y, ub) : y \in getbn(a2, h) } :
                       g \in luaBn_tobignum(a1, h, b) }
       ELSE LET d == lua_tonumber(a2)
            IN UNION { IF g.st # "ok" THEN { Raise(h, g.st) }
                       ELSE IF n = 0
                          THEN { IF c.st # "ok" THEN Raise(h, c.st)
                                 ELSE DivGeneric(h, g.bn, c.bn, ub) :
                                 c \in luaBn_tobignum(a2, h, b) }
                       ELSE { Out(h, "ok", DivWord(d, n, g.bn), 0, "word",
                                  "new", ub) } :
                       <<g, n>> \in Untested(ismt, a1, h, b)
                                      \X absnumber(d, b) }

\* the word path of mt_mod: the word remainder, with the dividend's sign
ModWord(n, x) ==
    BN_set_negative(BN_set_word(BN_mod_word(x, n)), BN_is_negative(x))

ModGeneric(h, x, y, ub) ==
    IF BN_div(x, y).ok
       THEN Out(h, "ok", BN_div(x, y).rem, 0, "generic", "new", ub)
    ELSE Raise(h, "ArithmeticError")

mt_mod(a1, a2, h, b) ==
    LET ub == Wild(a1) \/ Wild(a2)
    IN IF testbignum(a2)
          THEN UNION { IF g.st # "ok" THEN { Raise(h, g.st) }
                       ELSE { ModGeneric(h, g.bn, y, ub) : y \in getbn(a2, h) } :
                       g \in luaBn_tobignum(a1, h, b) }
       ELSE LET d == lua_tonumber(a2)
            IN UNION { IF g.st # "ok" THEN { Raise(h, g.st) }
                       ELSE IF n = 0
                          THEN { IF c.st # "ok" THEN Raise(h, c.st)
                                 ELSE ModGeneric(h, g.bn, c.bn, ub) :
                                 c \in luaBn_tobignum(a2, h, b) }
                       ELSE { Out(h, "ok", ModWord(n, g.bn), 0, "word", "new",
                                  ub) } :
                       <<g, n>> \in Untested(TRUE, a1, h, b)
                                      \X absnumber(d, b) }

(***************************************************************************)
(* Comparison: f_cmp, f_ucmp, f_eq, and the metamethods mt_eq and mt_lt.   *)
(***************************************************************************)
Bool(p) == IF p THEN 1 ELSE 0

\* two or three luaBn_tobignum calls in argument order: the first failure
\* is the one raised
Fetch2(a1, a2, h, b) ==
    { [st |-> IF g1.st # "ok" THEN g1.st ELSE g2.st, x |-> g1.bn, y |-> g2.bn] :
        <<g1, g2>> \in luaBn_tobignum(a1, h, b) \X luaBn_tobignum(a2, h, b) }

Fetch3(a1, a2, a3, h, b) ==
    { [st |-> IF f.st # "ok" THEN f.st ELSE g3.st, x |-> f.x, y |-> f.y,
       m |-> g3.bn] :
        <<f, g3>> \in Fetch2(a1, a2, h, b) \X luaBn_tobignum(a3, h, b) }

f_cmp(a1, a2, h, b) ==
    { IF f.st # "ok" THEN Raise(h, f.st)
      ELSE Out(h, "ok", BNZero, BN_cmp(f.x, f.y), "generic", "none", FALSE) :
      f \in Fetch2(a1, a2, h, b) }

f_ucmp(a1, a2, h, b) ==
    { IF f.st # "ok" THEN Raise(h, f.st)
      ELSE Out(h, "ok", BNZero, BN_ucmp(f.x, f.y), "generic", "none", FALSE) :
      f \in Fetch2(a1, a2, h, b) }

\* the word path of f_eq: the sign is cleared for BN_is_word and set again
EqWordRes(d, n, x) ==
    (BN_is_negative(x) = (d < 0)) /\ BN_is_word(BN_set_negative(x, FALSE), n)
EqWordLeaves(d, n, x) ==
    IF BN_is_negative(x) = (d < 0)
       THEN BN_set_negative(BN_set_negative(x, FALSE), BN_is_negative(x))
    ELSE x

\* the caller's object v, if it is one, now holds x
Poke(h, v, x) == IF IsBigInt(v) THEN [h EXCEPT ![v.id].bn = x] ELSE h

f_eq(a1, a2, h, b) ==
    LET t1 == testbignum(a1)
        t2 == testbignum(a2)
        narg == IF ~t1 THEN 1 ELSE IF ~t2 THEN 2 ELSE 0
        ub == Wild(a1) \/ Wild(a2)
    IN IF narg = 0
          THEN { Out(h, "ok", BNZero, Bool(BN_cmp(x, y) = 0), "generic", "none", ub) :
                   <<x, y>> \in getbn(a1, h) \X getbn(a2, h) }
       ELSE LET v == IF narg = 1 THEN a1 ELSE a2
                o == IF narg = 1 THEN a2 ELSE a1
                others == IF narg = 1 /\ ~t2 THEN luaBn_tobignum(a2, h, b)
                          ELSE Tested(o, h)
                d == lua_tonumber(v)
            IN UNION { IF g.st # "ok" THEN { Raise(h, g.st) }
                       ELSE IF n = 0
                          THEN { IF c.st # "ok" THEN Raise(h, c.st)
                                 ELSE Out(h, "ok", BNZero,
                                          Bool(BN_cmp(c.bn, g.bn) = 0),
                                          "generic", "none", ub) :
                                 c \in luaBn_tobignum(v, h, b) }
                       ELSE { Out(IF g.kind = "ref"
                                     THEN Poke(h, o, EqWordLeaves(d, n, g.bn))
                                  ELSE h,
                                  "ok", BNZero, Bool(EqWordRes(d, n, g.bn)),
                                  "word", "none", ub) } :
                       <<g, n>> \in others \X absnumber(d, b) }

mt_eq(a1, a2, h) ==
    IF ~testbignum(a1) \/ ~testbignum(a2) THEN { Raise(h, "AssertFail") }
    ELSE { Out(h, "ok", BNZero, Bool(BN_cmp(x, y) = 0), "generic", "none",
               Wild(a1) \/ Wild(a2)) :
             <<x, y>> \in getbn(a1, h) \X getbn(a2, h) }

mt_lt(a1, a2, h) ==
    IF ~testbignum(a1) \/ ~testbignum(a2) THEN { Raise(h, "AssertFail") }
    ELSE { Out(h, "ok", BNZero, Bool(BN_cmp(x, y) < 0), "generic", "none",
               Wild(a1) \/ Wild(a2)) :
             <<x, y>> \in getbn(a1, h) \X getbn(a2, h) }

mt_unm(a1, h) ==
    IF ~testbignum(a1) THEN { Raise(h, "AssertFail") }
    ELSE { Out(h, "ok", negatebignum(BN_copy(x)), 0, "generic", "new", Wild(a1)) :
             x \in getbn(a1, h) }

(***************************************************************************)
(* f_swap: both arguments must pass testbignum; BN_swap exchanges the      *)
(* BIGNUMs of the two blocks.                                              *)
(***************************************************************************)
f_swap(a1, a2, h) ==
    IF ~testbignum(a1) \/ ~testbignum(a2) THEN { Raise(h, "TypeError") }
    ELSE { Out(Poke(Poke(h, a1, y), a2, x), "ok", BNZero, 0, "none", "none",
               Wild(a1) \/ Wild(a2)) :
             <<x, y>> \in getbn(a1, h) \X getbn(a2, h) }

(***************************************************************************)
(* The primitives that take the scratch context, as OpenSSL computes them; *)
(* each is [ok, r].                                                        *)
(***************************************************************************)
RECURSIVE Euclid(_, _)
Euclid(x, y) == IF y = 0 THEN x ELSE Euclid(y, x % y)

Prim(ok, r) == [ok |-> ok, r |-> r]
Failed == Prim(FALSE, BNZero)

BN_gcd(a, c) == Prim(TRUE, BN(FALSE, Euclid(a.mag, c.mag)))
BN_sqr(a) == Prim(TRUE, BN(FALSE, a.mag * a.mag))
\* BN_exp reads the bits of p and not its sign; with p = 1 the result is
\* the copy of a
BN_exp(a, p) ==
    Prim(TRUE, IF p.mag = 1 THEN BN_copy(a) ELSE OfInt(Pow(Val(a), p.mag)))
\* BN_nnmod: the remainder of BN_div, and |m| added to it when its sign
\* flag is set
BN_nnmod(a, m) ==
    IF ~BN_div(a, m).ok THEN Failed
    ELSE IF ~BN_div(a, m).rem.neg THEN Prim(TRUE, BN_div(a, m).rem)
    ELSE Prim(TRUE, IF m.neg THEN BN_sub(BN_div(a, m).rem, m)
                    ELSE BN_add(BN_div(a, m).rem, m))
BN_mod_add(a, c, m) == BN_nnmod(BN_add(a, c), m)
BN_mod_sub(a, c, m) == BN_nnmod(BN_sub(a, c), m)
BN_mod_mul(a, c, m) == BN_nnmod(BN_mul(a, c), m)
\* BN_mod_sqr: BN_sqr, then the remainder of BN_div
BN_mod_sqr(a, m) ==
    IF BN_div(BN_sqr(a).r, m).ok THEN Prim(TRUE, BN_div(BN_sqr(a).r, m).rem)
    ELSE Failed
\* BN_mod_exp: a zero exponent returns before the modulus is used; the
\* sign of the modulus and of the exponent is ignored; the base is reduced
\* with BN_nnmod, which is where a zero modulus fails
BN_mod_exp(a, p, m) ==
    IF BN_is_zero(p) THEN Prim(TRUE, IF BN_is_one(m) THEN BNZero ELSE BN(FALSE, 1))
    ELSE IF BN_is_zero(m) THEN Failed
    ELSE Prim(TRUE, BN(FALSE, Pow(Val(a) % m.mag, p.mag) % m.mag))

\* the end of every operator: the result, or bnerror
Finish(h, p, path, robj, ub) ==
    IF p.ok THEN Out(h, "ok", p.r, 0, path, robj, ub)
    ELSE Raise(h, "ArithmeticError")

(***************************************************************************)
(* bn3: both operands as BIGNUMs, and the object that takes the result:    *)
(* a new one when both are BigInts, else the operand coerced last.         *)
(***************************************************************************)
bn3(a1, a2, h, b) ==
    LET narg == IF ~testbignum(a2) THEN 2 ELSE IF ~testbignum(a1) THEN 1 ELSE 0
        ub == Wild(a1) \/ Wild(a2)
        firsts == IF narg = 2 THEN luaBn_tobignum(a1, h, b) ELSE Tested(a1, h)
        seconds == IF narg = 2 THEN luaBn_tobignum(a2, h, b) ELSE Tested(a2, h)
        lasts == IF narg = 1 THEN luaBn_tobignum(a1, h, b) ELSE firsts
    IN { [st |-> IF narg = 2 /\ g1.st # "ok" THEN g1.st
                 ELSE IF narg = 2 THEN g2.st
                 ELSE IF narg = 1 THEN gl.st
                 ELSE "ok",
          x |-> IF narg = 1 THEN gl.bn ELSE g1.bn,
          y |-> g2.bn,
          robj |-> IF narg = 0 THEN "new"
                   ELSE IF narg = 1 THEN "arg1" ELSE "arg2",
          ub |-> ub] :
          <<g1, g2, gl>> \in firsts \X seconds \X lasts }

f_gcd(a1, a2, h, b) ==
    { IF t.st # "ok" THEN Raise(h, t.st)
      ELSE Finish(h, BN_gcd(t.x, t.y), "generic", t.robj, t.ub) :
      t \in bn3(a1, a2, h, b) }

f_modmul(a1, a2, a3, h, b) ==
    UNION { IF t.st # "ok" THEN { Raise(h, t.st) }
            ELSE { IF m.st # "ok" THEN Raise(h, m.st)
                   ELSE Finish(h, BN_mod_mul(t.x, t.y, m.bn), "generic", t.robj,
                               t.ub) :
                   m \in luaBn_tobignum(a3, h, b) } :
            t \in bn3(a1, a2, h, b) }

f_modadd(a1, a2, a3, h, b) ==
    { IF f.st # "ok" THEN Raise(h, f.st)
      ELSE Finish(h, BN_mod_add(f.x, f.y, f.m), "generic", "new", FALSE) :
      f \in Fetch3(a1, a2, a3, h, b) }

f_modsub(a1, a2, a3, h, b) ==
    { IF f.st # "ok" THEN Raise(h, f.st)
      ELSE Finish(h, BN_mod_sub(f.x, f.y, f.m), "generic", "new", FALSE) :
      f \in Fetch3(a1, a2, a3, h, b) }

f_modpow(a1, a2, a3, h, b) ==
    { IF f.st # "ok" THEN Raise(h, f.st)
      ELSE Finish(h, BN_mod_exp(f.x, f.y, f.m), "generic", "new", FALSE) :
      f \in Fetch3(a1, a2, a3, h, b) }

f_modsqr(a1, a2, h, b) ==
    { IF f.st # "ok" THEN Raise(h, f.st)
      ELSE Finish(h, BN_mod_sqr(f.x, f.y), "generic", "new", FALSE) :
      f \in Fetch2(a1, a2, h, b) }

f_nnmod(a1, a2, h, b) ==
    { IF f.st # "ok" THEN Raise(h, f.st)
      ELSE Finish(h, BN_nnmod(f.x, f.y), "generic", "new", FALSE) :
      f \in Fetch2(a1, a2, h, b) }

mt_pow(a1, a2, h, b) ==
    { IF f.st # "ok" THEN Raise(h, f.st)
      ELSE Finish(h, BN_exp(f.x, f.y), "generic", "new", FALSE) :
      f \in Fetch2(a1, a2, h, b) }

\* a faulty variant of f_sqr that squares every operand in place; C19 must
\* tell it from the code
f_sqrInPlace(a1, h, b) ==
    { IF g.st # "ok" THEN Raise(h, g.st)
      ELSE Finish(h, BN_sqr(g.bn), "generic", "arg1", FALSE) :
      g \in luaBn_tobignum(a1, h, b) }

f_sqr(a1, h, b) ==
    IF testbignum(a1)
       THEN { Finish(h, BN_sqr(x), "generic", "new", Wild(a1)) : x \in getbn(a1, h) }
    ELSE { IF g.st # "ok" THEN Raise(h, g.st)
           ELSE Finish(h, BN_sqr(g.bn), "generic", "arg1", FALSE) :
           g \in luaBn_tobignum(a1, h, b) }

\* f_isneg, f_iseven, f_isodd, f_isone, f_iszero
f_is(which, a1, h, b) ==
    { IF g.st # "ok" THEN Raise(h, g.st)
      ELSE Out(h, "ok", BNZero,
               Bool(CASE which = "isneg" -> BN_is_negative(g.bn)
                      [] which = "iseven" -> ~BN_is_odd(g.bn)
                      [] which = "isodd" -> BN_is_odd(g.bn)
                      [] which = "isone" -> BN_is_one(g.bn)
                      [] OTHER -> BN_is_zero(g.bn)),
               "none", "none", FALSE) :
      g \in luaBn_tobignum(a1, h, b) }

(***************************************************************************)
(* m_tostring and f_tobin.  mem tells which allocator, if any, is out of   *)
(* memory during the call: the library's (BN_bn2dec and OPENSSL_malloc     *)
(* return NULL) or the host's (lua_pushstring, luaL_addlstring and         *)
(* luaL_pushresult raise the host's memory error and unwind).              *)
(***************************************************************************)
Mem == { "ok", "nolibmem", "nohostmem" }

\* bn->str of the object a1 set to p
StrSet(h, a1, p) == [h EXCEPT ![a1.id].str = p]

\* the buffer set, the string pushed, the buffer freed and reset
Rendered(h, a1) == StrSet(StrSet(h, a1, "buffer"), a1, "NULL")

\* the decimal digits of the magnitude n, most significant first
RECURSIVE DecDigits(_)
DecDigits(n) ==
    IF n < 10 THEN << DecChars[n + 1] >>
    ELSE Append(DecDigits(n \div 10), DecChars[(n % 10) + 1])

\* a faulty variant of BN_bn2dec that prints the magnitude only; C12 must
\* tell it from the code
BN_bn2decMagnitude(a) == DecDigits(a.mag)

\* BN_bn2dec: "0" for a zero, else the sign and the digits
BN_bn2dec(a) ==
    IF BN_is_zero(a) THEN << "0" >>
    ELSE (IF BN_is_negative(a) THEN << "-" >> ELSE << >>) \o DecDigits(a.mag)

\* a faulty variant of m_tostring that keeps the buffer after the string
\* is pushed; C15 must tell it from the code
m_tostringKeeps(a1, h, mem) ==
    IF ~IsBigInt(a1) THEN { Raise(h, "TypeError") }
    ELSE { [Out(StrSet(h, a1, "buffer"), "ok", h[a1.id].bn, 0, "none", "none",
                FALSE) EXCEPT !.s = BN_bn2dec(h[a1.id].bn)] }

\* checkbn; the old buffer freed; bn->str = BN_bn2dec, which is NULL when
\* the library has no memory, and lua_pushstring pushes nil for NULL;
\* lua_pushstring raises when the host has no memory, and the buffer stays
m_tostring(a1, h, mem) ==
    IF ~IsBigInt(a1) THEN { Raise(h, "TypeError") }
    ELSE IF mem = "nolibmem"
       THEN { Out(StrSet(h, a1, "NULL"), "ok", h[a1.id].bn, 0, "nil", "none",
                  FALSE) }
    ELSE IF mem = "nohostmem"
       THEN { Raise(StrSet(h, a1, "buffer"), "HostMemoryError") }
    ELSE { [Out(Rendered(h, a1), "ok", h[a1.id].bn, 0, "none", "none", FALSE)
              EXCEPT !.s = BN_bn2dec(h[a1.id].bn)] }

\* BN_num_bytes: the bytes the magnitude takes, none for zero
RECURSIVE BN_num_bytes(_)
BN_num_bytes(a) ==
    IF a.mag = 0 THEN 0 ELSE 1 + BN_num_bytes(BN(FALSE, a.mag \div 2))

\* a magnitude of at most LUAL_BUFFERSIZE bytes goes through the host's
\* buffer and bn->str is not used until the end; a larger one is written
\* to bn->str, allocated with OPENSSL_malloc
f_tobin(a1, h, mem) ==
    IF ~IsBigInt(a1) THEN { Raise(h, "TypeError") }
    ELSE IF BN_num_bytes(h[a1.id].bn) <= LUAL_BUFFERSIZE
       THEN IF mem = "nohostmem" THEN { Raise(h, "HostMemoryError") }
            ELSE { Out(StrSet(h, a1, "NULL"), "ok", BN(FALSE, h[a1.id].bn.mag),
                       0, "stack", "none", FALSE) }
    ELSE IF mem = "nolibmem" THEN { Raise(StrSet(h, a1, "NULL"), "NoMemory") }
    ELSE IF mem = "nohostmem"
       THEN { Raise(StrSet(h, a1, "buffer"), "HostMemoryError") }
    ELSE { Out(Rendered(h, a1), "ok", BN(FALSE, h[a1.id].bn.mag), 0, "heap",
               "none", FALSE) }

(***************************************************************************)
(* The state: the build, the BigInt objects the script holds, and the      *)
(* call that has just returned or raised (ret; "idle" between calls).      *)
(***************************************************************************)
Slots == 1 .. NObj

Call(op, a1, a2, a3, o, multi) ==
    [op |-> op, a1 |-> a1, a2 |-> a2, a3 |-> a3, st |-> o.st, bn |-> o.bn,
     int |-> o.int, path |-> o.path, robj |-> o.robj, ub |-> o.ub,
     s |-> o.s, ctx |-> o.ctx, shown |-> o.shown, multi |-> multi]
Idle == Call("idle", Nil, Nil, Nil, Raise(<<>>, "none"), FALSE)

(***************************************************************************)
(* The module in the host (lib): the BN_CTX handle the registry userdata   *)
(* holds (ctx: "unset" before init_ctx_val, "NULL", "live" or "freed"),    *)
(* whether the script can reach the module's functions (loaded), the       *)
(* error queue of the library (errq, earliest record first), and how many  *)
(* times BN_CTX_free has been called (frees).                              *)
(***************************************************************************)
Lib(ctx, loaded, errq, frees) ==
    [ctx |-> ctx, loaded |-> loaded, errq |-> errq, frees |-> frees]
Unopened == Lib("unset", FALSE, << >>, 0)

\* the versions of the host: LUA_VERSION_NUM <= 501, and later ones
LuaVersions == { 501, 502 }

\* init_ctx_val: the userdata is stored in the registry holding NULL, then
\* filled with BN_CTX_new(), which is NULL when the library has no memory
init_ctx_val(l, ok) == [l EXCEPT !.ctx = IF ok THEN "live" ELSE "NULL"]

\* luaBn_open: luaL_register(L, "bn", ...) of Lua 5.1 stores the module in
\* the global bn and in package.loaded at once, luaL_newlib only builds the
\* table that require stores when luaBn_open returns; then init_ctx_val,
\* which raises when BN_CTX_new fails
luaBn_open(l, lua, ok) ==
    LET registered == [l EXCEPT !.loaded = lua <= 501]
        inited == init_ctx_val(registered, ok)
    IN IF ok THEN [inited EXCEPT !.loaded = TRUE] ELSE inited

\* gcctx: BN_CTX_free unless the handle is NULL; the handle is not reset
gcctx(l) ==
    IF l.ctx = "NULL" THEN [l EXCEPT !.loaded = FALSE]
    ELSE [l EXCEPT !.ctx = "freed", !.frees = @ + 1, !.loaded = FALSE]

\* the state after luaBn_open has returned: no BigInt exists yet
Init ==
    /\ build \in Builds
    /\ heap = [i \in Slots |-> NoObj]
    /\ ret = Idle
    /\ lib \in { luaBn_open(Unopened, lua, TRUE) : lua \in LuaVersions }

\* the calls that hand the scratch context to a primitive: get_ctx_val is
\* called once the operands are there; a failing primitive is one of them
CtxOps ==
    { "gcd", "modadd", "modsub", "modmul", "modpow", "modsqr", "nnmod",
      "__pow", "sqr" }
GenericCtxOps == { "mul", "__mul", "div", "__div", "__mod" }
FetchesCtx(op, o) ==
    \/ o.st = "ArithmeticError"
    \/ o.st = "ok" /\ op \in CtxOps
    \/ o.st = "ok" /\ op \in GenericCtxOps /\ o.path = "generic"

\* the statuses raised through bnerror, which takes the earliest record
\* off the error queue and appends its reason to the message
ViaBnerror == { "ArithmeticError", "ParseError", "NoMemory" }

\* the error queue once the failing primitive of the call, if any, has put
\* its record: BN_div and the primitives built on it, and BN_bn2dec
Recorded(q, op, o) ==
    IF o.st = "ArithmeticError" THEN Append(q, "div by zero")
    ELSE IF op = "tostring" /\ o.path = "nil" THEN Append(q, "malloc failure")
    ELSE q

\* bnerror on the queue q: the reason shown, and the queue left
bnerror(q) ==
    IF q = << >> THEN [shown |-> "none", errq |-> q]
    ELSE [shown |-> Head(q), errq |-> Tail(q)]

\* the call seen from the host: a primitive handed a context that is not
\* live dereferences it, and the process is gone
Landed(op, o, h, l) ==
    IF FetchesCtx(op, o) /\ l.ctx # "live"
       THEN [Raise(h, "crash") EXCEPT !.ub = TRUE, !.ctx = l.ctx]
    ELSE [o EXCEPT !.ctx = IF FetchesCtx(op, o) THEN l.ctx ELSE "none",
                   !.shown = IF o.st \in ViaBnerror
                                THEN bnerror(Recorded(l.errq, op, o)).shown
                             ELSE "none"]

\* a call ends: ret' is one of its outcomes; multi tells that the call has
\* more than one possible outcome (undefined behaviour)
Returns(op, a1, a2, a3, outs) ==
    /\ lib.loaded
    /\ \E o \in outs :
          LET e == Landed(op, o, heap, lib)
          IN /\ ret' = Call(op, a1, a2, a3, e, Cardinality(outs) > 1)
             /\ heap' = e.h
             /\ lib' = [lib EXCEPT !.errq =
                           IF e.st \in ViaBnerror
                              THEN bnerror(Recorded(@, op, e)).errq
                           ELSE Recorded(@, op, e)]

Chars == { "-", "0", "1", "2", "e", "x", "X", " " }
AllStrings == UNION { [1 .. n -> Chars] : n \in 0 .. MaxStrLen }
CoerceInputs ==
    { Number(d) : d \in HostNumbers } \cup { String(s) : s \in AllStrings }
      \cup OtherKinds

\* bn.number(v) on any number, any string, or a value of another kind
NumberOfAny ==
    /\ ret.op = "idle"
    /\ \E v \in CoerceInputs :
           Returns("number", v, Nil, Nil, f_number(v, heap, build))
    /\ UNCHANGED build

\* the script drops the result
Discard ==
    /\ ret.op # "idle"
    /\ ret.st # "crash"
    /\ ret' = Idle
    /\ UNCHANGED <<build, heap, lib>>

NextCoerce == NumberOfAny \/ Discard

SpecCoerce == Init /\ [][NextCoerce]_vars

(***************************************************************************)
(* The script: it calls the registered functions (bn_functions,            *)
(* bn_methods) and, through the operators of the language, the             *)
(* metamethods (bn_metafunctions), on the BigInts it holds and on          *)
(* literals; it keeps a result in a variable or drops it.                  *)
(***************************************************************************)
Refs(h) == { Ref(i) : i \in { j \in Slots : h[j].live } }

\* the host numbers around the limits of BN_ULONG, luaBn_Int and luaBn_UInt
Limits ==
    UNION { { 0, ULONG_MAX(b), IntMax(b), LUABN_UINT_MAX(b) } : b \in Builds }
OpInts ==
    { i \in -MaxNum .. MaxNum :
        \E x \in Limits : Abs(i) \in (x - 1) .. (x + 2) }
OpNumbers == { Number(Num(i)) : i \in OpInts } \cup { Number(-1), Number(1) }
OpStrings ==
    { String(s) : s \in { <<>>, <<"0">>, <<"2">>, <<"-", "2">>, <<" ", "2">>,
                          <<"1", "e", "1">>, <<"0", "x", "2">>, <<"2", "x">> } }
Literals == OpNumbers \cup OpStrings \cup OtherKinds
FewLiterals ==
    { Number(0), Number(Num(2)), Number(Num(-1)), Number(-1),
      String(<<"2">>), String(<<"2", "x">>) }
SmallOperands(h) == Refs(h) \cup FewLiterals \cup OtherKinds

\* two BigInts, or the BigInt of the script's first variable and a
\* literal in either order
First(h) == Refs(h) \cap { Ref(1) }
MixedPairs(h) ==
    (Refs(h) \X Refs(h)) \cup (First(h) \X Literals) \cup (Literals \X First(h))
AnyPairs(h) == MixedPairs(h) \cup (FewLiterals \X FewLiterals)
\* the operands of a metamethod the host calls for an operator: one of
\* them is a BigInt
MtPairs(h) ==
    (Refs(h) \X SmallOperands(h)) \cup (SmallOperands(h) \X Refs(h))
\* the operands of the modular functions: a modulus that is positive,
\* zero, negative, or no number
Bases(h) == Refs(h) \cup { Number(Num(2)) }
Moduli(h) ==
    Refs(h) \cup { Number(0), Number(Num(5)), Number(Num(-5)), Nil }
Triples(h) ==
    (Bases(h) \X Bases(h) \X Moduli(h))
      \cup ({Nil} \X Bases(h) \X Bases(h)) \cup (Bases(h) \X {Nil} \X Bases(h))

Add ==
    /\ ret.op = "idle"
    /\ \E p \in AnyPairs(heap) :
           Returns("add", p[1], p[2], Nil,
                   h_addsub(1, FALSE, p[1], p[2], heap, build))
    /\ UNCHANGED build

Sub ==
    /\ ret.op = "idle"
    /\ \E p \in AnyPairs(heap) :
           Returns("sub", p[1], p[2], Nil,
                   h_addsub(-1, FALSE, p[1], p[2], heap, build))
    /\ UNCHANGED build

Mul ==
    /\ ret.op = "idle"
    /\ \E p \in AnyPairs(heap) :
           Returns("mul", p[1], p[2], Nil,
                   h_mul(FALSE, p[1], p[2], heap, build))
    /\ UNCHANGED build

Div ==
    /\ ret.op = "idle"
    /\ \E p \in AnyPairs(heap) :
           Returns("div", p[1], p[2], Nil,
                   h_div(FALSE, p[1], p[2], heap, build))
    /\ UNCHANGED build

Cmp ==
    /\ ret.op = "idle"
    /\ \E p \in AnyPairs(heap) :
           Returns("cmp", p[1], p[2], Nil, f_cmp(p[1], p[2], heap, build))
    /\ UNCHANGED build

Ucmp ==
    /\ ret.op = "idle"
    /\ \E p \in AnyPairs(heap) :
           Returns("ucmp", p[1], p[2], Nil, f_ucmp(p[1], p[2], heap, build))
    /\ UNCHANGED build

Eq ==
    /\ ret.op = "idle"
    /\ \E p \in AnyPairs(heap) :
           Returns("eq", p[1], p[2], Nil, f_eq(p[1], p[2], heap, build))
    /\ UNCHANGED build

Gcd ==
    /\ ret.op = "idle"
    /\ \E p \in MtPairs(heap) :
           Returns("gcd", p[1], p[2], Nil, f_gcd(p[1], p[2], heap, build))
    /\ UNCHANGED build

Swap ==
    /\ ret.op = "idle"
    /\ \E p \in MtPairs(heap) :
           Returns("swap", p[1], p[2], Nil, f_swap(p[1], p[2], heap))
    /\ UNCHANGED build

ModSqr ==
    /\ ret.op = "idle"
    /\ \E p \in MtPairs(heap) \cup (Bases(heap) \X Moduli(heap)) :
           Returns("modsqr", p[1], p[2], Nil, f_modsqr(p[1], p[2], heap, build))
    /\ UNCHANGED build

NnMod ==
    /\ ret.op = "idle"
    /\ \E p \in MtPairs(heap) \cup (Bases(heap) \X Moduli(heap)) :
           Returns("nnmod", p[1], p[2], Nil, f_nnmod(p[1], p[2], heap, build))
    /\ UNCHANGED build

ModAdd ==
    /\ ret.op = "idle"
    /\ \E t \in Triples(heap) :
           Returns("modadd", t[1], t[2], t[3],
                   f_modadd(t[1], t[2], t[3], heap, build))
    /\ UNCHANGED build

ModSub ==
    /\ ret.op = "idle"
    /\ \E t \in Triples(heap) :
           Returns("modsub", t[1], t[2], t[3],
                   f_modsub(t[1], t[2], t[3], heap, build))
    /\ UNCHANGED build

ModMul ==
    /\ ret.op = "idle"
    /\ \E t \in Triples(heap) :
           Returns("modmul", t[1], t[2], t[3],
                   f_modmul(t[1], t[2], t[3], heap, build))
    /\ UNCHANGED build

ModPow ==
    /\ ret.op = "idle"
    /\ \E t \in Triples(heap) :
           Returns("modpow", t[1], t[2], t[3],
                   f_modpow(t[1], t[2], t[3], heap, build))
    /\ UNCHANGED build

MtAdd ==
    /\ ret.op = "idle"
    /\ \E p \in MtPairs(heap) :
           Returns("__add", p[1], p[2], Nil, h_addsub(1, TRUE, p[1], p[2], heap, build))
    /\ UNCHANGED build

MtSub ==
    /\ ret.op = "idle"
    /\ \E p \in MtPairs(heap) :
           Returns("__sub", p[1], p[2], Nil, h_addsub(-1, TRUE, p[1], p[2], heap, build))
    /\ UNCHANGED build

MtMul ==
    /\ ret.op = "idle"
    /\ \E p \in MtPairs(heap) :
           Returns("__mul", p[1], p[2], Nil, h_mul(TRUE, p[1], p[2], heap, build))
    /\ UNCHANGED build

MtDiv ==
    /\ ret.op = "idle"
    /\ \E p \in MixedPairs(heap) :
           Returns("__div", p[1], p[2], Nil, h_div(TRUE, p[1], p[2], heap, build))
    /\ UNCHANGED build

MtMod ==
    /\ ret.op = "idle"
    /\ \E p \in MixedPairs(heap) :
           Returns("__mod", p[1], p[2], Nil, mt_mod(p[1], p[2], heap, build))
    /\ UNCHANGED build

MtPow ==
    /\ ret.op = "idle"
    /\ \E p \in MtPairs(heap) :
           Returns("__pow", p[1], p[2], Nil, mt_pow(p[1], p[2], heap, build))
    /\ UNCHANGED build

MtLt ==
    /\ ret.op = "idle"
    /\ \E p \in MtPairs(heap) :
           Returns("__lt", p[1], p[2], Nil, mt_lt(p[1], p[2], heap))
    /\ UNCHANGED build

\* the host tries __eq only on two userdata
MtEq ==
    /\ ret.op = "idle"
    /\ \E p \in { q \in MtPairs(heap) : q[1].t = "userdata" /\ q[2].t = "userdata" } :
           Returns("__eq", p[1], p[2], Nil, mt_eq(p[1], p[2], heap))
    /\ UNCHANGED build

MtUnm ==
    /\ ret.op = "idle"
    /\ \E a \in Refs(heap) : Returns("__unm", a, Nil, Nil, mt_unm(a, heap))
    /\ UNCHANGED build

NumberOf ==
    /\ ret.op = "idle"
    /\ \E a \in SmallOperands(heap) : Returns("number", a, Nil, Nil, f_number(a, heap, build))
    /\ UNCHANGED build

Sqr ==
    /\ ret.op = "idle"
    /\ \E a \in SmallOperands(heap) : Returns("sqr", a, Nil, Nil, f_sqr(a, heap, build))
    /\ UNCHANGED build

IsNeg ==
    /\ ret.op = "idle"
    /\ \E a \in SmallOperands(heap) : Returns("isneg", a, Nil, Nil, f_is("isneg", a, heap, build))
    /\ UNCHANGED build

IsEven ==
    /\ ret.op = "idle"
    /\ \E a \in SmallOperands(heap) : Returns("iseven", a, Nil, Nil, f_is("iseven", a, heap, build))
    /\ UNCHANGED build

IsOdd ==
    /\ ret.op = "idle"
    /\ \E a \in SmallOperands(heap) : Returns("isodd", a, Nil, Nil, f_is("isodd", a, heap, build))
    /\ UNCHANGED build

IsOne ==
    /\ ret.op = "idle"
    /\ \E a \in SmallOperands(heap) : Returns("isone", a, Nil, Nil, f_is("isone", a, heap, build))
    /\ UNCHANGED build

IsZero ==
    /\ ret.op = "idle"
    /\ \E a \in SmallOperands(heap) : Returns("iszero", a, Nil, Nil, f_is("iszero", a, heap, build))
    /\ UNCHANGED build

Tostring ==
    /\ ret.op = "idle"
    /\ \E a \in SmallOperands(heap) : Returns("tostring", a, Nil, Nil, m_tostring(a, heap, "ok"))
    /\ UNCHANGED build

ToBin ==
    /\ ret.op = "idle"
    /\ \E a \in SmallOperands(heap) : Returns("tobin", a, Nil, Nil, f_tobin(a, heap, "ok"))
    /\ UNCHANGED build

\* the script keeps the BigInt a call returned in one of its variables
Store ==
    /\ ret.st = "ok"
    /\ ret.op # "open"
    /\ ret.robj \in {"new", "arg1", "arg2"}
    /\ ret.bn.mag <= MaxStore
    /\ \E i \in Slots : heap' = [heap EXCEPT ![i] = Obj(ret.bn)]
    /\ ret' = Idle
    /\ UNCHANGED <<build, lib>>

\* gcbn: a BigInt the script no longer refers to is collected
Collect ==
    /\ ret.op = "idle"
    /\ \E i \in Slots : heap[i].live /\ heap' = [heap EXCEPT ![i] = NoObj]
    /\ UNCHANGED <<build, ret, lib>>

Next ==
    \/ Add \/ Sub \/ Mul \/ Div \/ Cmp \/ Ucmp \/ Eq \/ Gcd \/ Swap
    \/ ModSqr \/ NnMod \/ ModAdd \/ ModSub \/ ModMul \/ ModPow
    \/ MtAdd \/ MtSub \/ MtMul \/ MtDiv \/ MtMod \/ MtPow \/ MtLt \/ MtEq
    \/ MtUnm \/ NumberOf \/ Sqr \/ IsNeg \/ IsEven \/ IsOdd \/ IsOne
    \/ IsZero \/ Tostring \/ ToBin \/ Store \/ Discard \/ Collect

Spec == Init /\ [][Next]_vars

(***************************************************************************)
(* The script that renders its BigInts while memory may run out.           *)
(***************************************************************************)
TostringMem ==
    /\ ret.op = "idle"
    /\ \E a \in SmallOperands(heap), mem \in Mem :
           /\ mem = "nolibmem" => Len(lib.errq) < MaxErr
           /\ Returns("tostring", a, Nil, Nil, m_tostring(a, heap, mem))
    /\ UNCHANGED build

ToBinMem ==
    /\ ret.op = "idle"
    /\ \E a \in SmallOperands(heap), mem \in Mem :
           Returns("tobin", a, Nil, Nil, f_tobin(a, heap, mem))
    /\ UNCHANGED build

\* bn.number on a BigInt or a literal, strings that do not parse included
NumberOfLiteral ==
    /\ ret.op = "idle"
    /\ \E a \in Refs(heap) \cup Literals :
           Returns("number", a, Nil, Nil, f_number(a, heap, build))
    /\ UNCHANGED build

NextMem ==
    NumberOfLiteral \/ TostringMem \/ ToBinMem \/ Store \/ Discard \/ Collect

SpecMem == Init /\ [][NextMem]_vars

(***************************************************************************)
(* The life of the module: the host opens it (require), the script uses    *)
(* whatever it can reach, the host closes the state (lua_close).           *)
(***************************************************************************)
InitOpen ==
    /\ build \in Builds
    /\ heap = [i \in Slots |-> NoObj]
    /\ ret = Idle
    /\ lib = Unopened

\* require "bn": luaBn_open on a host of either version, with or without
\* memory for the context
Open ==
    /\ ret.op = "idle"
    /\ lib.ctx = "unset"
    /\ \E lua \in LuaVersions, ok \in BOOLEAN :
          /\ lib' = luaBn_open(lib, lua, ok)
          /\ ret' = [Idle EXCEPT !.op = "open",
                                 !.st = IF ok THEN "ok" ELSE "OpenError"]
    /\ UNCHANGED <<build, heap>>

\* lua_close: gcbn on every BigInt, gcctx on the context userdata
Close ==
    /\ ret.op = "idle"
    /\ lib.ctx \in {"live", "NULL"}
    /\ heap' = [i \in Slots |-> NoObj]
    /\ lib' = gcctx(lib)
    /\ UNCHANGED <<build, ret>>

NextOpen == Open \/ NumberOf \/ Sqr \/ Store \/ Discard \/ Collect \/ Close

SpecOpen == InitOpen /\ [][NextOpen]_vars

(***************************************************************************)
(* The older revision (src/lib/luaBn.c).  Its coercion is the same code;   *)
(* the module has the one function number, and gcd, modadd, modsub,        *)
(* modmul, modpow, modsqr and sqr are methods of a BigInt (the __index     *)
(* table of the metatable), which fetch argument 1 behind an assertion.    *)
(* A script calls a method as a:gcd(x), or as a.gcd(x, y) with any first   *)
(* argument.                                                               *)
(***************************************************************************)
\* bn[2] of l_gcd and l_modmul: a BigInt as it is, with a new result, or
\* argument 2 coerced in place and used as the result
SecondOrResult(a2, h, b) ==
    IF testbignum(a2)
       THEN { [st |-> "ok", bn |-> y, robj |-> "new"] : y \in getbn(a2, h) }
    ELSE { [st |-> g.st, bn |-> g.bn, robj |-> "arg2"] :
           g \in luaBn_tobignum(a2, h, b) }

l_gcd(a1, a2, h, b) ==
    IF ~testbignum(a1) THEN { Raise(h, "AssertFail") }
    ELSE { IF g.st # "ok" THEN Raise(h, g.st)
           ELSE Finish(h, BN_gcd(x, g.bn), "generic", g.robj,
                       Wild(a1) \/ Wild(a2)) :
           <<x, g>> \in getbn(a1, h) \X SecondOrResult(a2, h, b) }

l_modadd(a1, a2, a3, h, b) ==
    IF ~testbignum(a1) THEN { Raise(h, "AssertFail") }
    ELSE { IF f.st # "ok" THEN Raise(h, f.st)
           ELSE Finish(h, BN_mod_add(x, f.x, f.y), "generic", "new", Wild(a1)) :
           <<x, f>> \in getbn(a1, h) \X Fetch2(a2, a3, h, b) }

l_modsub(a1, a2, a3, h, b) ==
    IF ~testbignum(a1) THEN { Raise(h, "AssertFail") }
    ELSE { IF f.st # "ok" THEN Raise(h, f.st)
           ELSE Finish(h, BN_mod_sub(x, f.x, f.y), "generic", "new", Wild(a1)) :
           <<x, f>> \in getbn(a1, h) \X Fetch2(a2, a3, h, b) }

l_modmul(a1, a2, a3, h, b) ==
    IF ~testbignum(a1) THEN { Raise(h, "AssertFail") }
    ELSE { IF g.st # "ok" THEN Raise(h, g.st)
           ELSE IF m.st # "ok" THEN Raise(h, m.st)
           ELSE Finish(h, BN_mod_mul(x, g.bn, m.bn), "generic", g.robj,
                       Wild(a1) \/ Wild(a2)) :
           <<x, g, m>> \in getbn(a1, h) \X SecondOrResult(a2, h, b)
                             \X luaBn_tobignum(a3, h, b) }

l_modpow(a1, a2, a3, h, b) ==
    IF ~testbignum(a1) THEN { Raise(h, "AssertFail") }
    ELSE { IF f.st # "ok" THEN Raise(h, f.st)
           ELSE Finish(h, BN_mod_exp(x, f.x, f.y), "generic", "new", Wild(a1)) :
           <<x, f>> \in getbn(a1, h) \X Fetch2(a2, a3, h, b) }

l_modsqr(a1, a2, h, b) ==
    IF ~testbignum(a1) THEN { Raise(h, "AssertFail") }
    ELSE { IF m.st # "ok" THEN Raise(h, m.st)
           ELSE Finish(h, BN_mod_sqr(x, m.bn), "generic", "new", Wild(a1)) :
           <<x, m>> \in getbn(a1, h) \X luaBn_tobignum(a2, h, b) }

l_sqr(a1, h, b) ==
    IF ~testbignum(a1) THEN { Raise(h, "AssertFail") }
    ELSE { Finish(h, BN_sqr(x), "generic", "new", Wild(a1)) : x \in getbn(a1, h) }

OldGcd ==
    /\ ret.op = "idle"
    /\ \E p \in MtPairs(heap) :
           Returns("gcd", p[1], p[2], Nil, l_gcd(p[1], p[2], heap, build))
    /\ UNCHANGED build

OldModAdd ==
    /\ ret.op = "idle"
    /\ \E t \in Triples(heap) :
           Returns("modadd", t[1], t[2], t[3],
                   l_modadd(t[1], t[2], t[3], heap, build))
    /\ UNCHANGED build

OldModSub ==
    /\ ret.op = "idle"
    /\ \E t \in Triples(heap) :
           Returns("modsub", t[1], t[2], t[3],
                   l_modsub(t[1], t[2], t[3], heap, build))
    /\ UNCHANGED build

OldModMul ==
    /\ ret.op = "idle"
    /\ \E t \in Triples(heap) :
           Returns("modmul", t[1], t[2], t[3],
                   l_modmul(t[1], t[2], t[3], heap, build))
    /\ UNCHANGED build

OldModPow ==
    /\ ret.op = "idle"
    /\ \E t \in Triples(heap) :
           Returns("modpow", t[1], t[2], t[3],
                   l_modpow(t[1], t[2], t[3], heap, build))
    /\ UNCHANGED build

OldModSqr ==
    /\ ret.op = "idle"
    /\ \E p \in MtPairs(heap) \cup (Bases(heap) \X Moduli(heap)) :
           Returns("modsqr", p[1], p[2], Nil, l_modsqr(p[1], p[2], heap, build))
    /\ UNCHANGED build

OldSqr ==
    /\ ret.op = "idle"
    /\ \E a \in SmallOperands(heap) :
           Returns("sqr", a, Nil, Nil, l_sqr(a, heap, build))
    /\ UNCHANGED build

NextOld ==
    \/ NumberOf \/ OldGcd \/ OldModAdd \/ OldModSub \/ OldModMul \/ OldModPow
    \/ OldModSqr \/ OldSqr \/ Store \/ Discard \/ Collect

SpecOld == Init /\ [][NextOld]_vars

\* ---- end of the model; the claims follow ----

(***************************************************************************)
(* Vocabulary of the claims.                                               *)
(***************************************************************************)
InIntRange(d, b) == Trunc(d) >= IntMin(b) /\ Trunc(d) <= IntMax(b)

NumberCall == ret.op = "number" /\ ret.a1.t = "number"

\* the integer a BigInt of the script holds
ValueOf(v) == Val(heap[v.id].bn)

\* a native integer k with 0 < |k| <= the largest BN_ULONG
WordSized(v, b) ==
    /\ v.t = "number"
    /\ IsIntegral(v.d)
    /\ v.d # 0
    /\ Abs(Trunc(v.d)) <= ULONG_MAX(b)

\* the script's BigInts, and one more that holds x
WithObject(h, x) ==
    [i \in 1 .. (NObj + 1) |-> IF i \in Slots THEN h[i] ELSE Obj(x)]
Extra == Ref(NObj + 1)
\* the operand, with a native number replaced by the extra BigInt
Boxed(v) == IF v.t = "number" THEN Extra ELSE v

Unary ==
    { "number", "sqr", "isneg", "iseven", "isodd", "isone", "iszero",
      "tostring", "tobin", "__unm" }
Ternary == { "modadd", "modsub", "modmul", "modpow" }
\* the operands the call was made with
Operands(r) ==
    IF r.op \in Unary THEN { r.a1 }
    ELSE IF r.op \in Ternary THEN { r.a1, r.a2, r.a3 }
    ELSE { r.a1, r.a2 }

(***************************************************************************)
(* Claims about coercion.                                                  *)
(***************************************************************************)
\* C1: for every integral host number d with -2^(W-1) <= d <= 2^(W-1)-1,
\* numbertobignum builds a BigInt whose value is exactly d (the most
\* negative value and values with zero upper limbs included).
C1_ExactIntegral ==
    (NumberCall /\ IsIntegral(ret.a1.d) /\ InIntRange(ret.a1.d, build))
        => (ret.st = "ok" /\ Num(Val(ret.bn)) = ret.a1.d)

\* the most negative value of luaBn_Int, two limbs wide, has been converted
C1_Witness ==
    /\ NumberCall
    /\ build.nwords = 2
    /\ ret.a1.d = Num(IntMin(build))
    /\ ret.st = "ok"
    /\ Val(ret.bn) = IntMin(build)

\* C2: for every host number d within range, integral or not, the result
\* has magnitude trunc(|d|) and is negative only when d is negative; so
\* every d with -1 < d < 0 converts to zero, and add(a, d) for such d
\* equals a.
C2_TruncatedMagnitude ==
    /\ (NumberCall /\ InIntRange(ret.a1.d, build))
         => /\ ret.st = "ok"
            /\ ret.bn.mag = Abs(Trunc(ret.a1.d))
            /\ (ret.bn.neg => ret.a1.d < 0)
    /\ (/\ ret.op = "add"
        /\ IsBigInt(ret.a1)
        /\ ret.a2.t = "number"
        /\ ret.a2.d < 0
        /\ ret.a2.d > Num(-1))
         => (ret.st = "ok" /\ Val(ret.bn) = ValueOf(ret.a1))

\* a whole optionally-signed decimal numeral, or a whole 0x/0X-prefixed
\* hexadecimal numeral
IsDecNumeral(s) ==
    LET neg == IF At(s, 1) = "-" THEN 1 ELSE 0
    IN Len(s) > neg /\ \A i \in (neg + 1) .. Len(s) : IsDigit(s[i])
IsHexNumeral(s) ==
    /\ Len(s) >= 3
    /\ s[1] = "0"
    /\ s[2] \in {"x", "X"}
    /\ \A i \in 3 .. Len(s) : IsXDigit(s[i])
ValidNumeral(s) == IsDecNumeral(s) \/ IsHexNumeral(s)

\* C3: coercing a string that is not, in its entirety, a valid numeral
\* fails with a parse error; no such string yields a BigInt.
C3_InvalidStringFails ==
    (ret.op = "number" /\ ret.a1.t = "string" /\ ~ValidNumeral(ret.a1.s))
        => ret.st = "ParseError"

(***************************************************************************)
(* Claims about the operators.                                             *)
(***************************************************************************)
\* the module function of the name, applied to two operands
Apply(op, x, y, h, b) ==
    CASE op = "add" -> h_addsub(1, FALSE, x, y, h, b)
      [] op = "sub" -> h_addsub(-1, FALSE, x, y, h, b)
      [] op = "mul" -> h_mul(FALSE, x, y, h, b)
      [] op = "__add" -> h_addsub(1, TRUE, x, y, h, b)
      [] op = "__sub" -> h_addsub(-1, TRUE, x, y, h, b)
      [] op = "__mul" -> h_mul(TRUE, x, y, h, b)

\* the same operator on a and number(k): every outcome, over every BigInt
\* number(k) can build
ViaNumber(r) ==
    LET k == IF r.a1.t = "number" THEN r.a1 ELSE r.a2
    IN UNION { Apply(r.op, Boxed(r.a1), Boxed(r.a2), WithObject(heap, x), build) :
               x \in numbertobignum(k.d, build) }

\* C4: for every BigInt a and every native integer k with
\* 0 < |k| <= word max, add, sub and mul of a and k, in either order,
\* return the same value as the same operator applied to a and number(k)
\* through the generic multi-precision primitive.
C4_FastPathAgrees ==
    (/\ ret.op \in {"add", "sub", "mul", "__add", "__sub", "__mul"}
     /\ \/ IsBigInt(ret.a1) /\ WordSized(ret.a2, build)
        \/ WordSized(ret.a1, build) /\ IsBigInt(ret.a2))
      => /\ ret.st = "ok"
         /\ \A o \in ViaNumber(ret) :
                o.st = "ok" /\ o.path = "generic" /\ Val(o.bn) = Val(ret.bn)

\* the dividend and the divisor of the call as integers
DividendOf(r) == IF IsBigInt(r.a1) THEN ValueOf(r.a1) ELSE Trunc(r.a1.d)
DivisorOf(r) == IF IsBigInt(r.a2) THEN ValueOf(r.a2) ELSE Trunc(r.a2.d)
\* an integer the host number holds exactly and luaBn_Int can hold
ExactNumber(v, b) == v.t = "number" /\ IsIntegral(v.d) /\ InIntRange(v.d, b)

\* C5: for every dividend a (a BigInt, or an exact native integer divided
\* by a BigInt) and every divisor b # 0, b a BigInt or a word-sized native
\* number of either sign, a = div(a,b)*b + mod(a,b), |mod(a,b)| < |b|, and
\* mod(a,b) is zero or has the sign of a.
C5_DivModIdentity ==
    (/\ ret.op \in {"div", "__div"}
     /\ \/ /\ IsBigInt(ret.a1)
           /\ \/ IsBigInt(ret.a2) /\ ValueOf(ret.a2) # 0
              \/ WordSized(ret.a2, build)
        \/ /\ ExactNumber(ret.a1, build)
           /\ IsBigInt(ret.a2)
           /\ ValueOf(ret.a2) # 0)
      => /\ ret.st = "ok"
         /\ \A m \in mt_mod(ret.a1, ret.a2, heap, build) :
                /\ m.st = "ok"
                /\ DividendOf(ret) = Val(ret.bn) * DivisorOf(ret) + Val(m.bn)
                /\ Abs(Val(m.bn)) < Abs(DivisorOf(ret))
                /\ Val(m.bn) = 0 \/ ((Val(m.bn) < 0) = (DividendOf(ret) < 0))

\* -3 has been divided by the word 2 on the fast path: the quotient is -1
C5_Witness ==
    /\ ret.op = "__div"
    /\ ret.path = "word"
    /\ IsBigInt(ret.a1)
    /\ ValueOf(ret.a1) = -3
    /\ ret.a2 = Number(Num(2))
    /\ Val(ret.bn) = -1
    /\ \E m \in mt_mod(ret.a1, ret.a2, heap, build) : Val(m.bn) = -1

\* the operand coerces, and to zero
CoercesToZero(v) ==
    \A g \in luaBn_tobignum(v, heap, build) : g.st = "ok" /\ BN_is_zero(g.bn)
\* the operand coerces, and to an integer that is not positive
CoercesToNonPositive(v) ==
    \A g \in luaBn_tobignum(v, heap, build) : g.st = "ok" /\ Val(g.bn) <= 0
Coerces(v) == \A g \in luaBn_tobignum(v, heap, build) : g.st = "ok"

\* C6: div(a, z) and mod(a, z) fail with an arithmetic error whenever z
\* coerces to zero (native 0, the string "0", a zero BigInt), and
\* modpow(a, e, m) fails with an arithmetic error whenever m <= 0.
C6_ZeroDivisorFails ==
    /\ (/\ ret.op \in {"div", "__div", "__mod"}
        /\ IsBigInt(ret.a1)
        /\ CoercesToZero(ret.a2))
         => ret.st = "ArithmeticError"
    /\ (/\ ret.op = "modpow"
        /\ Coerces(ret.a1)
        /\ Coerces(ret.a2)
        /\ CoercesToNonPositive(ret.a3))
         => ret.st = "ArithmeticError"

\* C7: for operands of any accepted kind, eq(a,b) is true exactly when
\* cmp(a,b) = 0, the word fast path of eq included, and ucmp(a,b) is the
\* comparison of the magnitudes.
C7_EqCmpConsistent ==
    /\ (ret.op = "eq" /\ Accepted(ret.a1) /\ Accepted(ret.a2) /\ ~ret.multi)
         => \A c \in f_cmp(ret.a1, ret.a2, heap, build) :
                /\ (c.st = "ok") = (ret.st = "ok")
                /\ c.st = "ok" => ((ret.int = 1) = (c.int = 0))
    /\ (ret.op = "ucmp" /\ Accepted(ret.a1) /\ Accepted(ret.a2) /\ ~ret.multi)
         => \A f \in Fetch2(ret.a1, ret.a2, heap, build) :
                /\ (f.st = "ok") = (ret.st = "ok")
                /\ f.st = "ok"
                     => ret.int = BN_cmp(BN(FALSE, f.x.mag), BN(FALSE, f.y.mag))

\* the negation of the BigInt x, as the operator - of the script gives it
Negated(x) == { u.bn : u \in mt_unm(Extra, WithObject(heap, x)) }

\* C8: add(a, b) = add(b, a) and sub(a, b) = neg(sub(b, a)), as integers,
\* for all BigInts a and b.
C8_AddSubSymmetry ==
    (ret.op \in {"add", "sub", "__add", "__sub"}
       /\ IsBigInt(ret.a1) /\ IsBigInt(ret.a2))
      => /\ ret.st = "ok"
         /\ \A o \in Apply(ret.op, ret.a2, ret.a1, heap, build) :
                /\ o.st = "ok"
                /\ ret.op \in {"add", "__add"} => Val(o.bn) = Val(ret.bn)
                /\ ret.op \in {"sub", "__sub"}
                     => \A u \in Negated(o.bn) : Val(u) = Val(ret.bn)

\* 1 - 3 = -2 = -(3 - 1) has been computed on two BigInts
C8_Witness ==
    /\ ret.op = "sub"
    /\ IsBigInt(ret.a1)
    /\ IsBigInt(ret.a2)
    /\ ValueOf(ret.a1) = 1
    /\ ValueOf(ret.a2) = 3
    /\ Val(ret.bn) = -2

\* C9: a call of any operator other than swap, whether it returns or
\* fails, leaves every BigInt that existed before it with the magnitude
\* and the sign it had.
C9_FramePreserved ==
    [][(ret.op = "idle" /\ ret'.op \notin {"idle", "swap"})
         => \A i \in Slots : heap[i].live => heap'[i].bn = heap[i].bn]_vars

\* C10: every operator called with an operand that is no number, no string
\* and no BigInt fails with a type error.
C10_OtherKindsRaiseTypeError ==
    (ret.op # "idle" /\ \E v \in Operands(ret) : ~Accepted(v))
        => ret.st = "TypeError"

\* the step is a call of swap on the operands x and y
SwapStep(x, y) ==
    ret.op = "idle" /\ ret'.op = "swap" /\ ret'.a1 = x /\ ret'.a2 = y

\* C11: swap(a, b) on two BigInts exchanges their contents in place and
\* changes no other BigInt, and a second swap restores both; if either
\* argument is no BigInt, swap raises a type error and changes nothing.
C11_SwapExchanges ==
    [][\A x, y \in SmallOperands(heap) :
         SwapStep(x, y)
           => IF IsBigInt(x) /\ IsBigInt(y)
                 THEN /\ ret'.st = "ok"
                      /\ heap'[x.id].bn = heap[y.id].bn
                      /\ heap'[y.id].bn = heap[x.id].bn
                      /\ \A i \in Slots \ {x.id, y.id} : heap'[i] = heap[i]
                      /\ \A o \in f_swap(x, y, heap') : o.h = heap
              ELSE ret'.st = "TypeError" /\ heap' = heap]_vars

(***************************************************************************)
(* Claims about rendering and parsing.                                     *)
(***************************************************************************)
\* the numeral with its redundant leading zeros removed
RECURSIVE StripZeros(_)
StripZeros(t) ==
    IF Len(t) > 1 /\ Head(t) = "0" THEN StripZeros(Tail(t)) ELSE t

\* the canonical text of a decimal numeral: no redundant leading zero, and
\* no sign on a zero
Canonical(s) ==
    LET neg == Head(s) = "-"
        digits == StripZeros(IF neg THEN Tail(s) ELSE s)
    IN IF neg /\ digits # << "0" >> THEN << "-" >> \o digits ELSE digits

\* the texts tostring can push for the BigInt x
TostringOf(x) == m_tostring(Extra, WithObject(heap, x), "ok")

\* C12: for every valid decimal numeral s (an optional '-', then digits,
\* leading zeros allowed), tostring(number(s)) is s with the redundant
\* leading zeros removed and the sign dropped when the value is zero.
C12_DecimalRoundTrip ==
    (ret.op = "number" /\ ret.a1.t = "string" /\ IsDecNumeral(ret.a1.s))
      => /\ ret.st = "ok"
         /\ \A o \in TostringOf(ret.bn) :
                o.st = "ok" /\ o.s = Canonical(ret.a1.s)

\* "-02" has been parsed, and renders as "-2"
C12_Witness ==
    /\ ret.op = "number"
    /\ ret.a1 = String(<< "-", "0", "2" >>)
    /\ ret.st = "ok"
    /\ \E o \in TostringOf(ret.bn) : o.s = << "-", "2" >>

\* how many characters the hexadecimal prefix of t takes: x or X first, or
\* right after one leading 0
HexPrefix(t) ==
    IF At(t, 1) \in {"x", "X"} THEN 1
    ELSE IF At(t, 1) = "0" /\ At(t, 2) \in {"x", "X"} THEN 2
    ELSE 0

\* s without the '-' in front of it, and the digits of that after the
\* prefix, without the '-' in front of them
Unsigned(t) == IF At(t, 1) = "-" THEN Tail(t) ELSE t
HexDigitsOf(s) ==
    LET t == Unsigned(s)
    IN Unsigned(SubSeq(t, HexPrefix(t) + 1, Len(t)))

\* a hexadecimal numeral: the prefix and at least one hexadecimal digit,
\* with at most one '-', in front of the numeral or of its digits
IsPrefixedHex(s) ==
    /\ HexPrefix(Unsigned(s)) > 0
    /\ Len(s) - Len(HexDigitsOf(s)) <= HexPrefix(Unsigned(s)) + 1
    /\ Len(HexDigitsOf(s)) > 0
    /\ \A i \in 1 .. Len(HexDigitsOf(s)) : IsXDigit(HexDigitsOf(s)[i])

\* C13: a string with a hexadecimal prefix (x or X first, or right after
\* one leading 0) is parsed as hexadecimal and yields a non-negative BigInt
\* whose magnitude is that of its hex digits; a '-' in front of a hex
\* numeral is ignored: it gives no negative value and no other magnitude.
C13_HexUnsigned ==
    (ret.op = "number" /\ ret.a1.t = "string" /\ IsPrefixedHex(ret.a1.s))
      => /\ ret.st = "ok"
         /\ ~BN_is_negative(ret.bn)
         /\ ret.bn.mag = DigitsVal(HexDigitsOf(ret.a1.s), 1,
                                   Len(HexDigitsOf(ret.a1.s)), 16)

(***************************************************************************)
(* Claims about the representation.                                        *)
(***************************************************************************)
\* a zero that carries the sign flag
NegativeZero(x) == BN_is_zero(x) /\ BN_is_negative(x)

\* C14: in every reachable state every BigInt with zero magnitude has a
\* non-negative sign: no BigInt the script holds and no BigInt an operator
\* returns is a negative zero.
C14_NoNegativeZero ==
    /\ \A i \in Slots : heap[i].live => ~NegativeZero(heap[i].bn)
    /\ (ret.st = "ok" /\ ret.robj \in {"new", "arg1", "arg2"})
         => ~NegativeZero(ret.bn)

(***************************************************************************)
(* Claims about the transient string buffer.                               *)
(***************************************************************************)
\* C15 as stated: whenever no tostring or tobin call is executing, the
\* transient string buffer of every BigInt is null, also after a call
\* whose hand-off of the string to the host failed and unwound.
C15_BufferNull == \A i \in Slots : heap[i].live => heap[i].str = "NULL"

\* the step is a tostring or tobin call on the BigInt of slot i
RenderStep(i) ==
    ret.op = "idle" /\ ret'.op \in {"tostring", "tobin"} /\ ret'.a1 = Ref(i)

\* C15, amended: a tostring or tobin call that returns has released the
\* buffer, and a buffer is left allocated only by a call whose hand-off of
\* the string to the host failed and unwound.
C15_BufferHeldOnlyAfterFailedHandOff ==
    [][\A i \in Slots :
         /\ (RenderStep(i) /\ ret'.st = "ok") => heap'[i].str = "NULL"
         /\ (heap[i].str = "NULL" /\ heap'[i].str # "NULL")
              => (RenderStep(i) /\ ret'.st = "HostMemoryError")]_vars

\* tostring has failed at the hand-off, and the buffer is still allocated
C15_Witness ==
    /\ ret.op = "tostring"
    /\ ret.st = "HostMemoryError"
    /\ IsBigInt(ret.a1)
    /\ heap[ret.a1.id].str = "buffer"

(***************************************************************************)
(* Claims about the scratch context and the error queue.                   *)
(***************************************************************************)
\* C16: an operator that fetches the scratch context obtains the non-null
\* context module initialization created; no operator of the module is
\* callable while the registered context holds a null handle; the context
\* is freed once, at teardown, and not before.
C16_ContextLive ==
    /\ ret.ctx \in {"none", "live"}
    /\ lib.loaded => lib.ctx = "live"
    /\ lib.frees = IF lib.ctx = "freed" THEN 1 ELSE 0

\* C17: a parse failure or a type-mismatch failure is raised without
\* consulting the error queue of the library: its message is the fixed
\* text alone and the queue is left as it was, so a record an earlier
\* failing primitive left there is neither consumed nor shown.
C17_FailureIgnoresQueue ==
    [][(ret.op = "idle" /\ ret'.st \in {"ParseError", "TypeError"})
         => (lib'.errq = lib.errq /\ ret'.shown = "none")]_vars

(***************************************************************************)
(* Claims about the choice of the path and of the result object.           *)
(***************************************************************************)
\* the operand whose number decides on the fast path when it is no BigInt:
\* the second of add and sub, the first of mul; and the other one
Examined(r) == IF r.op = "mul" THEN r.a1 ELSE r.a2
Unexamined(r) == IF r.op = "mul" THEN r.a2 ELSE r.a1

\* add, sub or mul has returned, called on two numbers or strings
NoBigIntCall ==
    /\ ret.op \in {"add", "sub", "mul"}
    /\ ret.a1.t \in {"number", "string"}
    /\ ret.a2.t \in {"number", "string"}
    /\ ret.st = "ok"

\* the host number d is a nonzero integer that fits in one BN_ULONG
FitsWord(d, b) ==
    IsIntegral(d) /\ d # 0 /\ Abs(Trunc(d)) <= ULONG_MAX(b)

\* C18 as stated: when neither operand of add, sub or mul is a BigInt,
\* both are materialized by coercion and the generic primitive computes
\* the result; the word fast path is never taken.
C18_NeverWordPath == NoBigIntCall => ret.path = "generic"

\* C18, amended: when neither operand of add, sub or mul is a BigInt, the
\* operand that is not examined is materialized by coercion; the word fast
\* path is taken on it when the examined operand converts to a nonzero
\* integer that fits in one machine word, and the examined operand is
\* materialized as well and the generic primitive used when it converts
\* to zero or to a non-integral number below the word maximum.
C18_WordPathOnExaminedOperand ==
    NoBigIntCall
      => LET d == lua_tonumber(Examined(ret))
         IN /\ \E g \in luaBn_tobignum(Unexamined(ret), heap, build) :
                   g.st = "ok" /\ g.kind = "new"
            /\ FitsWord(d, build)
                 => (ret.path = "word" /\ ret.robj = "new")
            /\ (d = 0 \/ (~IsIntegral(d) /\ Abs(Trunc(d)) < ULONG_MAX(build)))
                 => /\ ret.path = "generic"
                    /\ ret.robj = IF ret.op = "mul" THEN "arg1" ELSE "arg2"

\* 2 + (-1) has been computed on two native numbers, on the word path
C18_Witness ==
    /\ ret.op = "add"
    /\ ret.a1 = Number(Num(2))
    /\ ret.a2 = Number(Num(-1))
    /\ ret.path = "word"
    /\ Val(ret.bn) = 1

\* the operators that return a BigInt, and those of them that may return
\* the operand they materialized
ResultOps ==
    { "add", "sub", "mul", "div", "gcd", "sqr", "modadd", "modsub", "modmul",
      "modpow", "modsqr", "nnmod", "__add", "__sub", "__mul", "__div",
      "__mod", "__pow", "__unm" }
ReusingOps == { "add", "sub", "mul", "gcd", "modmul", "sqr",
                "__add", "__sub", "__mul" }

\* C19: the BigInt an operator returns is never a BigInt the caller passed
\* in: it is a new object or, for add, sub, mul, gcd, modmul and sqr, the
\* operand this call materialized from a number or a string; for div and
\* mod it is always a new object.
C19_ResultIsNoOperand ==
    (ret.op \in ResultOps /\ ret.st = "ok")
      => /\ ret.robj \in {"new", "arg1", "arg2"}
         /\ ret.robj = "arg1"
              => (ret.op \in ReusingOps /\ ret.a1.t \in {"number", "string"})
         /\ ret.robj = "arg2"
              => (ret.op \in ReusingOps /\ ret.a2.t \in {"number", "string"})

\* a BigInt times the native 0: the result is the object made from the 0
C19_Witness ==
    /\ ret.op = "mul"
    /\ IsBigInt(ret.a1)
    /\ ret.a2 = Number(0)
    /\ ret.st = "ok"
    /\ ret.path = "generic"
    /\ ret.robj = "arg2"

\* the call has one BigInt operand and one native number operand, which
\* for div and mod is the divisor
WordOps ==
    { "add", "sub", "mul", "eq", "__add", "__sub", "__mul", "div", "__div",
      "__mod" }
OneBigIntOneNumber ==
    /\ ret.op \in WordOps
    /\ ret.st = "ok"
    /\ \/ IsBigInt(ret.a1) /\ ret.a2.t = "number"
       \/ /\ ret.a1.t = "number"
          /\ IsBigInt(ret.a2)
          /\ ret.op \notin {"div", "__div", "__mod"}
\* the native number operand of such a call
NumberOperand(r) == IF r.a1.t = "number" THEN r.a1.d ELSE r.a2.d

\* C20: a binary operator (add, sub, mul, div, mod, eq) with one BigInt
\* operand and one native number operand d uses the word-level primitive
\* if and only if |d| is an integer that fits in one machine word, d = 0
\* included; for a non-integral d and for a d beyond the word maximum the
\* generic primitive is used.
C20_WordPathIffFits ==
    OneBigIntOneNumber
      => LET d == NumberOperand(ret)
         IN (ret.path = "word")
              <=> (IsIntegral(d) /\ Abs(Trunc(d)) <= ULONG_MAX(build))


(***************************************************************************)
(* Claims about strings as operands and about the assertions.              *)
(***************************************************************************)
StringOps == { "add", "sub", "mul", "div", "__mod", "eq" }
\* the call has one BigInt operand and one string operand
OneBigIntOneString(r) ==
    \/ IsBigInt(r.a1) /\ r.a2.t = "string"
    \/ r.a1.t = "string" /\ IsBigInt(r.a2)
StringOperand(r) == IF r.a1.t = "string" THEN r.a1 ELSE r.a2
\* the operand, with a string replaced by the extra BigInt
Parsed(v) == IF v.t = "string" THEN Extra ELSE v

\* the function or metamethod of the name, applied to two operands
Operator(op, x, y, h, b) ==
    CASE op = "div" -> h_div(FALSE, x, y, h, b)
      [] op = "__mod" -> mt_mod(x, y, h, b)
      [] op = "eq" -> f_eq(x, y, h, b)
      [] OTHER -> Apply(op, x, y, h, b)

\* the same operator on a and number(s): the parse error of number(s), or
\* every outcome of the operator on the BigInt number(s) builds
ViaParsed(r) ==
    LET p == stringtobignum(StringOperand(r).s)
    IN IF p.st # "ok" THEN { Raise(heap, p.st) }
       ELSE Operator(r.op, Parsed(r.a1), Parsed(r.a2),
                     WithObject(heap, p.bn), build)

\* C21: for every BigInt a and every string s, each of add, sub, mul, div,
\* mod and eq applied to a and s, in either order, has the same outcome
\* (the same value or truth value, or the same error) as the operator
\* applied to a and number(s).
C21_StringsCoercedAlike ==
    (ret.op \in StringOps /\ OneBigIntOneString(ret))
      => \A o \in ViaParsed(ret) :
             /\ o.st = ret.st
             /\ o.st = "ok" => (Val(o.bn) = Val(ret.bn) /\ o.int = ret.int)


\* the metamethods that fetch an operand behind an assertion
MetaOps ==
    { "__add", "__sub", "__mul", "__div", "__mod", "__unm", "__eq", "__lt" }
\* the call has at least one BigInt operand
SomeBigInt(r) == \E v \in Operands(r) : IsBigInt(v)
\* the word the mod fast path divides by
ModDivisor(r) == absnumber(lua_tonumber(r.a2), build) \ { 0 }

\* the methods of the older revision that assert on argument 1
MethodOps ==
    { "gcd", "modadd", "modsub", "modmul", "modpow", "modsqr", "sqr" }

\* C22: whenever a metamethod is invoked with at least one BigInt operand
\* and the other operand of any kind, no assertion of the metamethod fails:
\* the asserted operand is a BigInt, and in the mod fast path the word
\* remainder is below the word divisor; and no call of gcd, modadd,
\* modsub, modmul, modpow, modsqr or sqr fails an assertion on its first
\* argument.
C22_AssertionsHold ==
    /\ (ret.op \in MetaOps /\ SomeBigInt(ret)) => ret.st # "AssertFail"
    /\ ret.op \in MethodOps => ret.st # "AssertFail"
    /\ (ret.op = "__mod" /\ ret.st = "ok" /\ ret.path = "word")
         => \A n \in ModDivisor(ret) : ret.bn.mag < n

====
